---- MODULE Spec2Model ----
(***************************************************************************)
(* Provider configuration handshake of the Artifactory Terraform provider *)
(* (ArtifactoryProvider.Configure): resolution of the URL and of the      *)
(* credential from the environment, the OIDC exchange and the provider    *)
(* block, construction of the authenticated client, the license and       *)
(* version preflight checks, the detached usage-telemetry send, and the   *)
(* release of the provider metadata to resources and data sources.        *)
(*                                                                         *)
(* Configure is modelled statement by statement; every call of an         *)
(* external collaborator is one step.  The collaborators (client.Build,   *)
(* util.OIDCTokenExchange, client.AddAuth, util.CheckArtifactoryLicense,  *)
(* util.GetArtifactoryVersion, util.SendUsage) live outside the provider: *)
(* their outcomes are arbitrary and fixed per run in `collab`.            *)
(***************************************************************************)
EXTENDS Naturals, Sequences, FiniteSets, TLC

VARIABLES
    env,            \* process environment: variable name -> value ("" = unset)
    req,            \* provider.ConfigureRequest: the provider block, and whether decoding it fails
    collab,         \* what each external collaborator answers in this run
    pc,             \* position of Configure
    config,         \* var config ArtifactoryProviderModel
    url,            \* local url
    accessToken,    \* local accessToken
    oidcAccessToken,\* local oidcAccessToken
    apiKey,         \* local apiKey
    restyClient,    \* local restyClient
    version,        \* local version
    resp,           \* provider.ConfigureResponse: Diagnostics, DataSourceData, ResourceData
    calls,          \* collaborator invocations so far, in order
    usage           \* the goroutine running util.SendUsage

vars == <<env, req, collab, pc, config, url, accessToken, oidcAccessToken,
          apiKey, restyClient, version, resp, calls, usage>>

----------------------------------------------------------------------------
(* types.String / types.Bool of the plugin framework: a value or null.     *)

StringNull == [null |-> TRUE, value |-> ""]

StringValue(s) == [null |-> FALSE, value |-> s]

BoolNull == [null |-> TRUE, value |-> FALSE]

BoolValue(b) == [null |-> FALSE, value |-> b]

\* ValueString() / ValueBool(): the zero value when null.
ValueString(x) == IF x.null THEN "" ELSE x.value

ValueBool(x) == IF x.null THEN FALSE ELSE x.value

IsNull(x) == x.null

\* The zero ArtifactoryProviderModel (`var config ArtifactoryProviderModel`).
ZeroModel ==
    [Url |-> StringNull, AccessToken |-> StringNull, ApiKey |-> StringNull,
     OIDCProviderName |-> StringNull, CheckLicense |-> BoolNull]

----------------------------------------------------------------------------
(* Input domains.                                                          *)

EnvNames == {"JFROG_URL", "ARTIFACTORY_URL",
             "JFROG_ACCESS_TOKEN", "ARTIFACTORY_ACCESS_TOKEN"}

EnvValues(k) ==
    CASE k = "JFROG_URL"                -> {"", "https://jfrog.env"}
      [] k = "ARTIFACTORY_URL"          -> {"", "https://artifactory.env"}
      [] k = "JFROG_ACCESS_TOKEN"       -> {"", "jfrog-env-token"}
      [] k = "ARTIFACTORY_ACCESS_TOKEN" -> {"", "artifactory-env-token"}

Environments == {e \in [EnvNames -> UNION {EnvValues(k) : k \in EnvNames}] :
                    \A k \in EnvNames : e[k] \in EnvValues(k)}

Models ==
    [Url              : {StringNull, StringValue("https://x.example/artifactory")},
     AccessToken      : {StringNull, StringValue("config-token")},
     ApiKey           : {StringNull, StringValue(""), StringValue("k1")},
     OIDCProviderName : {StringNull, StringValue("oidc-provider")},
     CheckLicense     : {BoolNull, BoolValue(TRUE), BoolValue(FALSE)}]

Requests == [Config : Models, GetFails : BOOLEAN]

Collaborators ==
    [Build       : {"ok", "err"},
     OIDC        : {[err |-> TRUE, token |-> ""],
                    [err |-> FALSE, token |-> ""],
                    [err |-> FALSE, token |-> "oidc-token"]},
     AddAuth     : {"ok", "err"},
     License     : {"ok", "err"},
     Version     : {[err |-> TRUE, version |-> ""],
                    [err |-> FALSE, version |-> "7.84.1"]}]

----------------------------------------------------------------------------
(* Helpers of Configure.                                                   *)

productId == "terraform-provider-artifactory"

NilClient == [nil |-> TRUE, url |-> "", auth |-> FALSE]

\* util.CheckEnvVars: the first variable of `names` with a non-empty value,
\* else the default.
RECURSIVE CheckEnvVars(_, _, _)
CheckEnvVars(e, names, dv) ==
    IF names = <<>> THEN dv
    ELSE IF e[Head(names)] # "" THEN e[Head(names)]
    ELSE CheckEnvVars(e, Tail(names), dv)

Diag(sev, summary) == [severity |-> sev, summary |-> summary]

\* resp.Diagnostics.HasError()
HasError(diags) == \E i \in 1..Len(diags) : diags[i].severity = "error"

AddError(r, summary) ==
    [r EXCEPT !.Diagnostics = Append(@, Diag("error", summary))]

Call(fn, args) == [fn |-> fn, args |-> args]

\* Mutation: the environment url wins over the provider block.
ResolveUrlValue_EnvFirst(envUrl, cfg) ==
    IF envUrl # "" THEN envUrl ELSE ValueString(cfg.Url)

\* if config.Url.ValueString() != "" { url = config.Url.ValueString() }
ResolveUrlValue(envUrl, cfg) ==
    IF ValueString(cfg.Url) # "" THEN ValueString(cfg.Url) ELSE envUrl

\* Mutation: the empty-url check is lost.
MissingUrl_Never(u) == FALSE

\* if url == ""
MissingUrl(u) == u = ""

\* Mutation: the two overwrites in the other order (the OIDC token last).
ResolveAccessToken_OidcLast(envToken, oidcToken, cfg) ==
    LET afterConfig == IF ValueString(cfg.AccessToken) # ""
                         THEN ValueString(cfg.AccessToken) ELSE envToken
    IN  IF oidcToken # "" THEN oidcToken ELSE afterConfig

\* Mutation: the OIDC overwrite is lost.
ResolveAccessToken_NoOidc(envToken, oidcToken, cfg) ==
    IF ValueString(cfg.AccessToken) # "" THEN ValueString(cfg.AccessToken)
    ELSE envToken

\* The two conditional overwrites of accessToken: OIDC token, then config.
ResolveAccessToken(envToken, oidcToken, cfg) ==
    LET afterOidc == IF oidcToken # "" THEN oidcToken ELSE envToken
    IN  IF ValueString(cfg.AccessToken) # "" THEN ValueString(cfg.AccessToken)
        ELSE afterOidc

\* Mutation: only the access token is looked at.
MissingCredential_TokenOnly(key, token) == token = ""

\* if apiKey == "" && accessToken == ""
MissingCredential(key, token) == key = "" /\ token = ""

\* Mutation: an unset check_license counts as false.
LicenseCheckEnabled_NullOff(cfg) == ValueBool(cfg.CheckLicense)

\* if config.CheckLicense.IsNull() || config.CheckLicense.ValueBool()
LicenseCheckEnabled(cfg) == IsNull(cfg.CheckLicense) \/ ValueBool(cfg.CheckLicense)

----------------------------------------------------------------------------
Init ==
    /\ env \in Environments
    /\ req \in Requests
    /\ collab \in Collaborators
    /\ pc = "env"
    /\ config = ZeroModel
    /\ url = ""
    /\ accessToken = ""
    /\ oidcAccessToken = ""
    /\ apiKey = ""
    /\ restyClient = NilClient
    /\ version = ""
    /\ resp = [Diagnostics |-> <<>>, DataSourceData |-> <<>>, ResourceData |-> <<>>]
    /\ calls = <<>>
    /\ usage = "idle"

\* url := CheckEnvVars(JFROG_URL, ARTIFACTORY_URL); accessToken := CheckEnvVars(...)
ReadEnv ==
    /\ pc = "env"
    /\ url' = CheckEnvVars(env, <<"JFROG_URL", "ARTIFACTORY_URL">>, "")
    /\ accessToken' = CheckEnvVars(env, <<"JFROG_ACCESS_TOKEN", "ARTIFACTORY_ACCESS_TOKEN">>, "")
    /\ pc' = "config"
    /\ UNCHANGED <<env, req, collab, config, oidcAccessToken, apiKey,
                   restyClient, version, resp, calls, usage>>

\* resp.Diagnostics.Append(req.Config.Get(ctx, &config)...); return on error
ReadConfig ==
    /\ pc = "config"
    /\ IF req.GetFails
         THEN /\ resp' = AddError(resp, "Config read error")
              /\ pc' = "done"
              /\ UNCHANGED config
         ELSE /\ config' = req.Config
              /\ pc' = "url"
              /\ UNCHANGED resp
    /\ UNCHANGED <<env, req, collab, url, accessToken, oidcAccessToken, apiKey,
                   restyClient, version, calls, usage>>

\* config url overrides the environment; an empty url is an error
ResolveUrl ==
    /\ pc = "url"
    /\ url' = ResolveUrlValue(url, config)
    /\ IF MissingUrl(url')
         THEN /\ resp' = AddError(resp, "Missing URL Configuration")
              /\ pc' = "done"
         ELSE /\ pc' = "build"
              /\ UNCHANGED resp
    /\ UNCHANGED <<env, req, collab, config, accessToken, oidcAccessToken, apiKey,
                   restyClient, version, calls, usage>>

\* restyClient, err := client.Build(url, productId)
BuildClient ==
    /\ pc = "build"
    /\ calls' = Append(calls, Call("Build", <<url, productId>>))
    /\ IF collab.Build = "err"
         THEN /\ resp' = AddError(resp, "Error creating Resty client")
              /\ pc' = "done"
              /\ restyClient' = NilClient
         ELSE /\ restyClient' = [nil |-> FALSE, url |-> url, auth |-> FALSE]
              /\ pc' = "oidc"
              /\ UNCHANGED resp
    /\ UNCHANGED <<env, req, collab, config, url, accessToken, oidcAccessToken,
                   apiKey, version, usage>>

\* oidcAccessToken, err := util.OIDCTokenExchange(ctx, restyClient, name)
ExchangeOIDC ==
    /\ pc = "oidc"
    /\ calls' = Append(calls, Call("OIDCTokenExchange",
                                   <<ValueString(config.OIDCProviderName)>>))
    /\ IF collab.OIDC.err
         THEN /\ resp' = AddError(resp, "Failed OIDC ID token exchange")
              /\ pc' = "done"
              /\ UNCHANGED oidcAccessToken
         ELSE /\ oidcAccessToken' = collab.OIDC.token
              /\ pc' = "credential"
              /\ UNCHANGED resp
    /\ UNCHANGED <<env, req, collab, config, url, accessToken, apiKey,
                   restyClient, version, usage>>

\* the overwrites of accessToken, apiKey := config.ApiKey, and the missing-credential check
ResolveCredential ==
    /\ pc = "credential"
    /\ accessToken' = ResolveAccessToken(accessToken, oidcAccessToken, config)
    /\ apiKey' = ValueString(config.ApiKey)
    /\ IF MissingCredential(apiKey', accessToken')
         THEN /\ resp' = AddError(resp, "Missing JFrog API key or Access Token")
              /\ pc' = "done"
         ELSE /\ pc' = "auth"
              /\ UNCHANGED resp
    /\ UNCHANGED <<env, req, collab, config, url, oidcAccessToken,
                   restyClient, version, calls, usage>>

\* restyClient, err = client.AddAuth(restyClient, apiKey, accessToken);
\* on error the diagnostic is added and execution falls through.
\* What AddAuth returns beside an error is the collaborator's choice.
AddAuth ==
    /\ pc = "auth"
    /\ calls' = Append(calls, Call("AddAuth", <<apiKey, accessToken>>))
    /\ IF collab.AddAuth = "err"
         THEN /\ resp' = AddError(resp, "Error adding Auth to Resty client")
              /\ restyClient' \in {NilClient, restyClient}
         ELSE /\ restyClient' = [restyClient EXCEPT !.auth = TRUE]
              /\ UNCHANGED resp
    /\ pc' = "license"
    /\ UNCHANGED <<env, req, collab, config, url, accessToken, oidcAccessToken,
                   apiKey, version, usage>>

\* util.CheckArtifactoryLicense(restyClient, "Enterprise", "Commercial", "Edge")
CheckLicense ==
    /\ pc = "license"
    /\ IF LicenseCheckEnabled(config)
         THEN /\ calls' = Append(calls, Call("CheckArtifactoryLicense",
                                             <<"Enterprise", "Commercial", "Edge">>))
              /\ IF collab.License = "err"
                   THEN /\ resp' = AddError(resp, "Error checking Artifactory license")
                        /\ pc' = "done"
                   ELSE /\ pc' = "version"
                        /\ UNCHANGED resp
         ELSE /\ pc' = "version"
              /\ UNCHANGED <<calls, resp>>
    /\ UNCHANGED <<env, req, collab, config, url, accessToken, oidcAccessToken,
                   apiKey, restyClient, version, usage>>

\* version, err := util.GetArtifactoryVersion(restyClient)
GetVersion ==
    /\ pc = "version"
    /\ calls' = Append(calls, Call("GetArtifactoryVersion", <<>>))
    /\ IF collab.Version.err
         THEN /\ resp' = AddError(resp, "Error getting Artifactory version")
              /\ pc' = "done"
              /\ UNCHANGED version
         ELSE /\ version' = collab.Version.version
              /\ pc' = "usage"
              /\ UNCHANGED resp
    /\ UNCHANGED <<env, req, collab, config, url, accessToken, oidcAccessToken,
                   apiKey, restyClient, usage>>

\* go util.SendUsage(ctx, restyClient.R(), productId, featureUsage)
StartSendUsage ==
    /\ pc = "usage"
    /\ calls' = Append(calls, Call("SendUsage", <<productId>>))
    /\ usage' = "running"
    /\ pc' = "release"
    /\ UNCHANGED <<env, req, collab, config, url, accessToken, oidcAccessToken,
                   apiKey, restyClient, version, resp>>

\* meta := util.ProviderMetadata{...}; resp.DataSourceData = meta; resp.ResourceData = meta
Release ==
    /\ pc = "release"
    /\ LET meta == [Client |-> restyClient, ProductId |-> productId,
                    ArtifactoryVersion |-> version]
       IN  resp' = [resp EXCEPT !.DataSourceData = <<meta>>, !.ResourceData = <<meta>>]
    /\ pc' = "done"
    /\ UNCHANGED <<env, req, collab, config, url, accessToken, oidcAccessToken,
                   apiKey, restyClient, version, calls, usage>>

\* The detached goroutine: util.SendUsage returns, with or without an error;
\* nothing reads its result.  It may also never return.
SendUsageReturns ==
    /\ usage = "running"
    /\ usage' \in {"sent", "failed"}
    /\ UNCHANGED <<env, req, collab, pc, config, url, accessToken, oidcAccessToken,
                   apiKey, restyClient, version, resp, calls>>

Next ==
    \/ ReadEnv
    \/ ReadConfig
    \/ ResolveUrl
    \/ BuildClient
    \/ ExchangeOIDC
    \/ ResolveCredential
    \/ AddAuth
    \/ CheckLicense
    \/ GetVersion
    \/ StartSendUsage
    \/ Release
    \/ SendUsageReturns

Spec == Init /\ [][Next]_vars

----------------------------------------------------------------------------
(* Vocabulary of the properties, written over the inputs of the run       *)
(* (env, req, collab) and over what Configure has observably done         *)
(* (calls, resp, pc).                                                      *)

Called(fn) == \E i \in 1..Len(calls) : calls[i].fn = fn

ArgsOf(fn) == {calls[i].args : i \in {j \in 1..Len(calls) : calls[j].fn = fn}}

Raised(summary) ==
    \E i \in 1..Len(resp.Diagnostics) :
        resp.Diagnostics[i] = [severity |-> "error", summary |-> summary]

Warned == \E i \in 1..Len(resp.Diagnostics) : resp.Diagnostics[i].severity = "warning"

Failed == HasError(resp.Diagnostics)

NothingReleased == resp.ResourceData = <<>> /\ resp.DataSourceData = <<>>

AllReleased == resp.ResourceData # <<>> /\ resp.DataSourceData # <<>>

CfgUrl == IF req.Config.Url.null THEN "" ELSE req.Config.Url.value

CfgToken == IF req.Config.AccessToken.null THEN "" ELSE req.Config.AccessToken.value

CfgApiKey == IF req.Config.ApiKey.null THEN "" ELSE req.Config.ApiKey.value

CfgOidcName ==
    IF req.Config.OIDCProviderName.null THEN "" ELSE req.Config.OIDCProviderName.value

EnvUrl == IF env["JFROG_URL"] # "" THEN env["JFROG_URL"] ELSE env["ARTIFACTORY_URL"]

EnvToken ==
    IF env["JFROG_ACCESS_TOKEN"] # "" THEN env["JFROG_ACCESS_TOKEN"]
    ELSE env["ARTIFACTORY_ACCESS_TOKEN"]

UrlSourcesEmpty ==
    CfgUrl = "" /\ env["JFROG_URL"] = "" /\ env["ARTIFACTORY_URL"] = ""

\* The OIDC exchange was made and returned a token (possibly empty).
OidcSucceeded == Called("OIDCTokenExchange") /\ ~collab.OIDC.err

OidcToken == collab.OIDC.token

\* config access_token, else OIDC token, else environment token
ExpectedToken ==
    IF CfgToken # "" THEN CfgToken
    ELSE IF OidcToken # "" THEN OidcToken
    ELSE EnvToken

----------------------------------------------------------------------------
\* C1: when client.Build or client.AddAuth fails, an error is recorded and
\* Configure aborts: no license check, version lookup or telemetry send
\* follows and no ResourceData/DataSourceData is set; released data implies
\* diagnostics without an error.
C1_AbortOnClientFailure ==
    /\ (Called("Build") /\ collab.Build = "err") =>
           /\ Failed
           /\ ~Called("OIDCTokenExchange") /\ ~Called("AddAuth")
           /\ ~Called("CheckArtifactoryLicense") /\ ~Called("GetArtifactoryVersion")
           /\ ~Called("SendUsage")
           /\ NothingReleased
    /\ (Called("AddAuth") /\ collab.AddAuth = "err") =>
           /\ Failed
           /\ ~Called("CheckArtifactoryLicense") /\ ~Called("GetArtifactoryVersion")
           /\ ~Called("SendUsage")
           /\ NothingReleased
    /\ (pc = "done" /\ ~NothingReleased) => ~Failed

\* C2: when the version lookup fails after every earlier step succeeded,
\* Configure ends with a warning and no error, ResourceData and
\* DataSourceData set, and an empty ArtifactoryVersion in them.
C2_VersionFailureIsWarning ==
    (/\ pc = "done"
     /\ Called("GetArtifactoryVersion") /\ collab.Version.err
     /\ collab.AddAuth = "ok") =>
        /\ Warned
        /\ ~Failed
        /\ AllReleased
        /\ resp.ResourceData[1].ArtifactoryVersion = ""
        /\ resp.DataSourceData[1].ArtifactoryVersion = ""

\* C3: the access token handed to AddAuth is the config access_token if
\* non-empty, else the OIDC token if non-empty, else the environment token
\* (JFROG_ACCESS_TOKEN if non-empty, else ARTIFACTORY_ACCESS_TOKEN).
C3_TokenResolutionOrder ==
    /\ \A a \in ArgsOf("AddAuth") : a[2] = ExpectedToken
    /\ pc \in {"auth", "license", "version", "usage", "release"} =>
           accessToken = ExpectedToken

\* C3 witness: AddAuth was reached with a config access_token and an
\* exchanged OIDC token both present, and the config token was handed over.
C3_Witness ==
    /\ CfgToken # "" /\ OidcSucceeded /\ OidcToken # "" /\ EnvToken # ""
    /\ \E a \in ArgsOf("AddAuth") : a[2] = CfgToken

\* C4 as stated: whenever the OIDC exchange returned a non-empty token and
\* the config access_token is non-empty too, the credential used for
\* authentication is the OIDC token.
C4_OidcBeatsConfig ==
    (OidcSucceeded /\ OidcToken # "" /\ CfgToken # "") =>
        \A a \in ArgsOf("AddAuth") : a[2] = OidcToken

\* C4 as amended: the config access_token beats the OIDC token, which beats
\* the environment token; the config api_key is handed to AddAuth unchanged
\* beside the token, whatever the token is.
C4_ConfigBeatsOidc ==
    \A a \in ArgsOf("AddAuth") :
        /\ a[1] = CfgApiKey
        /\ CfgToken # "" => a[2] = CfgToken
        /\ (CfgToken = "" /\ OidcToken # "") => a[2] = OidcToken
        /\ (CfgToken = "" /\ OidcToken = "") => a[2] = EnvToken

\* C4 witness: both tokens present, the config one was used, next to an api key.
C4_Witness ==
    /\ OidcSucceeded /\ OidcToken # "" /\ CfgToken # "" /\ CfgApiKey # ""
    /\ \E a \in ArgsOf("AddAuth") : a = <<CfgApiKey, CfgToken>>

\* C5: with the config url, JFROG_URL and ARTIFACTORY_URL all empty (and the
\* provider block readable), Configure ends with exactly the "Missing URL
\* Configuration" error, releases nothing and has invoked no collaborator;
\* that error is never raised when one of the three is non-empty.
C5_MissingUrl ==
    /\ UrlSourcesEmpty => (calls = <<>> /\ usage = "idle" /\ NothingReleased)
    /\ (UrlSourcesEmpty /\ pc = "done" /\ ~req.GetFails) =>
           resp.Diagnostics = <<[severity |-> "error",
                                 summary |-> "Missing URL Configuration"]>>
    /\ (UrlSourcesEmpty /\ ~req.GetFails) =>
           pc \in {"env", "config", "url", "done"}
    /\ Raised("Missing URL Configuration") => UrlSourcesEmpty

\* C5 witness: Configure ended on the missing-url error.
C5_Witness ==
    UrlSourcesEmpty /\ pc = "done" /\ Raised("Missing URL Configuration")

\* C6: the url handed to client.Build is the config url when non-empty,
\* whatever the environment holds; else JFROG_URL if non-empty, else
\* ARTIFACTORY_URL.
C6_UrlPrecedence ==
    \A a \in ArgsOf("Build") :
        a[1] = (IF CfgUrl # "" THEN CfgUrl ELSE EnvUrl)

\* C6 witness: Build was called with the config url while both environment
\* variables were set.
C6_Witness ==
    /\ CfgUrl # "" /\ env["JFROG_URL"] # "" /\ env["ARTIFACTORY_URL"] # ""
    /\ \E a \in ArgsOf("Build") : a[1] = CfgUrl

\* The scenario of C7: url and api_key "k1" in the provider block only.
C7_Scenario ==
    /\ req.Config = [Url |-> [null |-> FALSE, value |-> "https://x.example/artifactory"],
                     AccessToken |-> [null |-> TRUE, value |-> ""],
                     ApiKey |-> [null |-> FALSE, value |-> "k1"],
                     OIDCProviderName |-> [null |-> TRUE, value |-> ""],
                     CheckLicense |-> [null |-> TRUE, value |-> FALSE]]
    /\ ~req.GetFails
    /\ \A k \in EnvNames : env[k] = ""
    /\ collab = [Build |-> "ok", OIDC |-> [err |-> FALSE, token |-> ""],
                 AddAuth |-> "ok", License |-> "ok",
                 Version |-> [err |-> FALSE, version |-> "7.84.1"]]

\* C7: after a successful client build and OIDC exchange, Configure ends on
\* "Missing JFrog API key or Access Token", without calling AddAuth, exactly
\* when the config api_key and the resolved access token are all empty; with
\* only api_key "k1" configured AddAuth gets ("k1", "") and, the
\* collaborators succeeding, configuration succeeds.
C7_MissingCredential ==
    /\ (pc = "done" /\ OidcSucceeded) =>
           (Raised("Missing JFrog API key or Access Token")
              <=> (CfgApiKey = "" /\ ExpectedToken = ""))
    /\ Raised("Missing JFrog API key or Access Token") =>
           (OidcSucceeded /\ ~Called("AddAuth") /\ NothingReleased)
    /\ (OidcSucceeded /\ CfgApiKey = "" /\ ExpectedToken = "") => ~Called("AddAuth")
    /\ (OidcSucceeded /\ pc \in {"auth", "license", "version", "usage", "release"}) =>
           ~(CfgApiKey = "" /\ ExpectedToken = "")
    /\ (C7_Scenario /\ pc = "done") =>
           /\ ArgsOf("AddAuth") = {<<"k1", "">>}
           /\ ~Failed
           /\ AllReleased

\* C7 witness: the api-key-only scenario ran to its end.
C7_Witness ==
    C7_Scenario /\ pc = "done" /\ Called("AddAuth")

\* Every step but the license check succeeds in this run.
C8_OthersSucceed ==
    /\ ~req.GetFails
    /\ ~UrlSourcesEmpty
    /\ collab.Build = "ok" /\ ~collab.OIDC.err /\ collab.AddAuth = "ok"
    /\ ~(CfgApiKey = "" /\ ExpectedToken = "")
    /\ ~collab.Version.err

\* C8: the license check is made exactly when check_license is null or
\* true, and then its error is fatal (error diagnostic, no version lookup,
\* no telemetry, nothing released); with check_license false the check is
\* never invoked and Configure succeeds even though the collaborator would
\* have answered with an error, the other steps succeeding.
C8_LicenseCheck ==
    /\ Called("CheckArtifactoryLicense") =>
           (req.Config.CheckLicense.null \/ req.Config.CheckLicense.value)
    /\ ((req.Config.CheckLicense.null \/ req.Config.CheckLicense.value)
          /\ (pc \in {"version", "usage", "release"} \/ Called("GetArtifactoryVersion"))) =>
           Called("CheckArtifactoryLicense")
    /\ (Called("CheckArtifactoryLicense") /\ collab.License = "err") =>
           /\ pc = "done"
           /\ Raised("Error checking Artifactory license")
           /\ ~Called("GetArtifactoryVersion") /\ ~Called("SendUsage")
           /\ usage = "idle"
           /\ NothingReleased
    /\ (~req.Config.CheckLicense.null /\ ~req.Config.CheckLicense.value
          /\ collab.License = "err" /\ C8_OthersSucceed /\ pc = "done") =>
           (~Failed /\ AllReleased)

\* C8 witness: check_license false, a license collaborator that would have
\* failed, and Configure ended releasing the metadata.
C8_Witness ==
    /\ ~req.Config.CheckLicense.null /\ ~req.Config.CheckLicense.value
    /\ collab.License = "err"
    /\ pc = "done" /\ AllReleased /\ ~Called("CheckArtifactoryLicense")

\* C9: OIDCTokenExchange is never invoked when oidc_provider_name is unset
\* or empty; when the exchange is made and fails, Configure ends on "Failed
\* OIDC ID token exchange" and releases nothing, whatever other credential
\* is available.
C9_OidcOnlyIfConfigured ==
    /\ CfgOidcName = "" => ~Called("OIDCTokenExchange")
    /\ (Called("OIDCTokenExchange") /\ collab.OIDC.err) =>
           /\ pc = "done"
           /\ Raised("Failed OIDC ID token exchange")
           /\ ~Called("AddAuth")
           /\ NothingReleased

\* C10: the telemetry send is started only when every preceding step
\* succeeded (no error diagnostic) and never on a failing run; its outcome
\* changes neither the diagnostics nor the released data nor whether
\* Configure ends.
C10_TelemetryOnlyOnSuccess ==
    /\ Called("SendUsage") => ~Failed
    /\ usage # "idle" => ~Failed
    /\ (pc = "done" /\ Failed) => (usage = "idle" /\ ~Called("SendUsage"))
    /\ (pc = "done" /\ usage # "idle") => AllReleased

====
